---- MODULE Spec2Model ----
(***************************************************************************)
(* A model of mdb-tianocore (src/src/main.rs): the boot-log scanner of     *)
(* main() and the symbol resolver process_file()/post_process().           *)
(*                                                                         *)
(* Text is modelled character by character: a token is a sequence of       *)
(* one-character strings, so prefix/suffix tests and trimming are computed *)
(* as the standard library computes them.  u64 is scaled down to AddrBits  *)
(* bits; every place where the code's arithmetic can overflow keeps that   *)
(* width.                                                                  *)
(***************************************************************************)
EXTENDS Integers, Sequences, FiniteSets, TLC

VARIABLES
    pc,               \* where main() is: "scan", "modules", "syms", "post", "done", "panicked"
    map,              \* main: BTreeMap<u64, String>, load address -> module base name
    line,             \* main: the log line read last ([exact, fields])
    prev,             \* history: map as it was before the last line was applied
    lastEv,           \* history: per address, the last load or failure line of the log
    want,             \* history: per address, the file token of the last well-formed load line
    overflow_checks,  \* the build: TRUE when integer overflow panics (dev profile), FALSE when it wraps
    todo,             \* main, line 152: the keys of map the loop has not visited yet
    visited,          \* history: the modules visited, in order, each with its outcome
    stderr,           \* the base names reported by eprintln! (line 155)
    addr_start,       \* process_file: the load address of the module being processed
    sh_size,          \* process_file: hdr.sh_size of the .text section found
    text_shndx,       \* process_file: the index of the .text section found
    addr_end,         \* process_file: addr_start + hdr.sh_size
    results,          \* process_file: BTreeMap<u64, SymRes>
    kept,             \* history: per absolute address, the last symbol the filter is to keep
    notes,            \* history: what the symbol loop met ("collision", "dropped")
    out               \* the lines println! wrote for the module being processed

scanvars == <<map, line, prev, lastEv, want>>

filevars == <<addr_start, sh_size, text_shndx, addr_end, results, kept, notes, out>>

resvars == <<overflow_checks, todo, visited, stderr, addr_start, sh_size, text_shndx,
             addr_end, results, kept, notes, out>>

vars == <<pc, map, line, prev, lastEv, want, overflow_checks, todo, visited, stderr,
          addr_start, sh_size, text_shndx, addr_end, results, kept, notes, out>>

(***************************************************************************)
(* Bounds                                                                  *)
(***************************************************************************)
\* Width of an address in bits (u64 in the code, scaled down).
AddrBits == 4

\* The largest st_value of a symbol.
MaxVal == 2

Modulus == 2 ^ AddrBits

Addrs == 0 .. (Modulus - 1)

(***************************************************************************)
(* Text                                                                    *)
(***************************************************************************)
Loading == <<"L", "o", "a", "d", "i", "n", "g">>

ErrorColon == <<"E", "r", "r", "o", "r", ":">>

Image == <<"I", "m", "a", "g", "e">>

At == <<"a", "t">>

To == <<"t", "o">>

EntryPoint == <<"E", "P", "=", "0", "x", "0">>

HexPrefix == <<"0", "x">>

EfiSuffix == <<".", "e", "f", "i">>

\* str::starts_with
StartsWith(s, p) == Len(s) >= Len(p) /\ SubSeq(s, 1, Len(p)) = p

\* str::ends_with
EndsWith(s, p) == Len(s) >= Len(p) /\ SubSeq(s, Len(s) - Len(p) + 1, Len(s)) = p

\* str::trim_start_matches: removes every repetition of the prefix.
RECURSIVE TrimStartMatches(_, _)
TrimStartMatches(s, p) ==
    IF Len(p) > 0 /\ StartsWith(s, p)
    THEN TrimStartMatches(SubSeq(s, Len(p) + 1, Len(s)), p)
    ELSE s

\* str::trim_end_matches: removes every repetition of the suffix.
RECURSIVE TrimEndMatches(_, _)
TrimEndMatches(s, p) ==
    IF Len(p) > 0 /\ EndsWith(s, p)
    THEN TrimEndMatches(SubSeq(s, 1, Len(s) - Len(p)), p)
    ELSE s

\* char::to_digit(16); -1 when the character is no hexadecimal digit.
ToDigit16(c) ==
    CASE c = "0" -> 0  [] c = "1" -> 1  [] c = "2" -> 2  [] c = "3" -> 3
      [] c = "4" -> 4  [] c = "5" -> 5  [] c = "6" -> 6  [] c = "7" -> 7
      [] c = "8" -> 8  [] c = "9" -> 9
      [] c \in {"a", "A"} -> 10  [] c \in {"b", "B"} -> 11
      [] c \in {"c", "C"} -> 12  [] c \in {"d", "D"} -> 13
      [] c \in {"e", "E"} -> 14  [] c \in {"f", "F"} -> 15
      [] OTHER -> -1

\* The digit loop of from_str_radix: checked_mul, checked_add; -1 is Err.
RECURSIVE Digits16(_, _)
Digits16(s, acc) ==
    IF s = <<>> THEN acc
    ELSE IF ToDigit16(Head(s)) < 0 THEN -1
    ELSE IF acc * 16 + ToDigit16(Head(s)) >= Modulus THEN -1
    ELSE Digits16(Tail(s), acc * 16 + ToDigit16(Head(s)))

\* u64::from_str_radix(s, 16): Ok(v) is v, Err is -1.  An empty string, a lone
\* sign, a character that is no digit and a value past the width are errors; one
\* leading "+" is accepted, a "-" is not a digit of an unsigned type.
FromStrRadix16(s) ==
    IF s = <<>> THEN -1
    ELSE IF Head(s) = "+"
         THEN IF Tail(s) = <<>> THEN -1 ELSE Digits16(Tail(s), 0)
         ELSE Digits16(s, 0)

(***************************************************************************)
(* BTreeMap                                                                *)
(***************************************************************************)
EmptyMap == [k \in {} |-> 0]

\* m with k bound to v, for the history variables and the inputs.
Put(m, k, v) == [x \in (DOMAIN m) \cup {k} |-> IF x = k THEN v ELSE m[x]]

Drop(m, k) == [x \in (DOMAIN m) \ {k} |-> m[x]]

\* A faulty variant of Insert that keeps the entry of an existing key (entry().or_insert).
InsertIfAbsent(m, k, v) == [x \in (DOMAIN m) \cup {k} |-> IF x \in DOMAIN m THEN m[x] ELSE v]

\* BTreeMap::insert: overwrites the entry of an existing key.
Insert(m, k, v) == [x \in (DOMAIN m) \cup {k} |-> IF x = k THEN v ELSE m[x]]

\* A faulty variant of Remove that leaves the entry in place.
RemoveNothing(m, k) == m

\* A faulty variant of Remove that keeps the entry of k and removes the others.
RemoveOthers(m, k) == [x \in (DOMAIN m) \cap {k} |-> m[x]]

\* BTreeMap::remove: removing an absent key changes nothing.
Remove(m, k) == [x \in (DOMAIN m) \ {k} |-> m[x]]

(***************************************************************************)
(* The log scanner (main, lines 122-151)                                   *)
(***************************************************************************)
\* Address tokens the log may hold.
AddrTokens ==
    { <<"0", "x", "0">>, <<"0", "x", "1">>, <<"0", "x", "0", "1">>,
      <<"0", "x", "1", "0">>, <<"0", "x", "0", "x", "1">>, <<"0", "x">>,
      <<"0", "x", "g">>, <<"0", "x", "+", "1">>,
      <<"0">>, <<"1">>, <<"1", "0">>, <<"+", "1">>, <<"g">> }

\* File tokens the log may hold.
FileTokens ==
    { <<"a", ".", "e", "f", "i">>,
      <<"b", ".", "e", "f", "i", ".", "e", "f", "i">>,
      <<"a", ".", "e", "f">> }

\* A line: its whitespace-separated fields, and whether its text starts with the
\* first three fields laid out as in a literal prefix (no leading whitespace, one
\* space after each).
LineOf(exact, fields) == [exact |-> exact, fields |-> fields]

Lines ==
    { LineOf(e, f) :
        e \in BOOLEAN,
        f \in { <<>> }
              \cup { <<t0, Image, t2>> : t0 \in {Loading, ErrorColon}, t2 \in {At, To} }
              \cup { <<t0, Image, t2, t3>> :
                        t0 \in {Loading, ErrorColon}, t2 \in {At, To}, t3 \in AddrTokens }
              \cup { <<t0, Image, t2, t3, EntryPoint, t5>> :
                        t0 \in {Loading, ErrorColon}, t2 \in {At, To},
                        t3 \in AddrTokens, t5 \in FileTokens } }

\* fields.get(i), zero-based: Some(_) or None.
HasField(l, i) == Len(l.fields) > i

Field(l, i) == l.fields[i + 1]

\* The pattern of line 126: (Some(&"Loading"), Some(&"at"), Some(addr), Some(file)).
LoadShape(l) ==
    /\ HasField(l, 0) /\ HasField(l, 2) /\ HasField(l, 3) /\ HasField(l, 5)
    /\ Field(l, 0) = Loading
    /\ Field(l, 2) = At

\* Line 129-131: the address a load-shaped line inserts at, -1 when it inserts nothing.
LoadAddr(l) ==
    IF StartsWith(Field(l, 3), HexPrefix) /\ EndsWith(Field(l, 5), EfiSuffix)
    THEN FromStrRadix16(TrimStartMatches(Field(l, 3), HexPrefix))
    ELSE -1

\* Line 135: the module name stored for a file token.
ModuleName(file) == TrimEndMatches(file, EfiSuffix)

\* line.starts_with("Error: Image at ") && fields.get(3).is_some()
FailShape(l) ==
    /\ l.exact
    /\ HasField(l, 2)
    /\ Field(l, 0) = ErrorColon /\ Field(l, 1) = Image /\ Field(l, 2) = At
    /\ HasField(l, 3)

\* Line 144-145: the address a failure-shaped line removes, -1 when it removes nothing.
FailAddr(l) == FromStrRadix16(Field(l, 3))

\* One iteration of the loop of line 122: the mapping after line l.
Scan(m, l) ==
    IF LoadShape(l)
    THEN IF LoadAddr(l) >= 0
         THEN Insert(m, LoadAddr(l), ModuleName(Field(l, 5)))
         ELSE m
    ELSE IF FailShape(l)
         THEN IF FailAddr(l) >= 0 THEN Remove(m, FailAddr(l)) ELSE m
         ELSE m

(***************************************************************************)
(* What the specification calls a load line and a failure line, read off   *)
(* the line's text alone (used by the history variables, not by the code). *)
(***************************************************************************)
IsHexDigits(s) == Len(s) > 0 /\ \A i \in 1 .. Len(s) : ToDigit16(s[i]) >= 0

RECURSIVE HexValue(_)
HexValue(s) == IF s = <<>> THEN 0 ELSE HexValue(SubSeq(s, 1, Len(s) - 1)) * 16 + ToDigit16(s[Len(s)])

\* Removes one occurrence of a prefix / a suffix.
StripPrefixOnce(s, p) == IF StartsWith(s, p) THEN SubSeq(s, Len(p) + 1, Len(s)) ELSE s

StripSuffixOnce(s, p) == IF EndsWith(s, p) THEN SubSeq(s, 1, Len(s) - Len(p)) ELSE s

\* Token 0 = "Loading", token 2 = "at", token 3 = "0x" + hex digits, token 5 ends in ".efi".
WellFormedLoad(l) ==
    /\ Len(l.fields) >= 6
    /\ l.fields[1] = Loading
    /\ l.fields[3] = At
    /\ StartsWith(l.fields[4], HexPrefix)
    /\ IsHexDigits(StripPrefixOnce(l.fields[4], HexPrefix))
    /\ EndsWith(l.fields[6], EfiSuffix)

WellFormedLoadAddr(l) == HexValue(StripPrefixOnce(l.fields[4], HexPrefix))

\* "Error: Image at <hex digits> ..."
WellFormedFail(l) ==
    /\ l.exact
    /\ Len(l.fields) >= 4
    /\ l.fields[1] = ErrorColon /\ l.fields[2] = Image /\ l.fields[3] = At
    /\ IsHexDigits(l.fields[4])

WellFormedFailAddr(l) == HexValue(l.fields[4])

\* The last event of each address, as the specification reads the lines: "load"
\* (file is the line's token 5), "reload" (a load after a failure), "fail" (a
\* failure with no load before it) or "retracted" (a failure after a load).
EventAfter(ev, l) ==
    IF WellFormedLoad(l) /\ WellFormedLoadAddr(l) \in Addrs
    THEN Put(ev, WellFormedLoadAddr(l),
                [kind |-> IF WellFormedLoadAddr(l) \in DOMAIN ev
                             /\ ev[WellFormedLoadAddr(l)].kind \in {"retracted", "reload"}
                          THEN "reload" ELSE "load",
                 file |-> l.fields[6]])
    ELSE IF WellFormedFail(l) /\ WellFormedFailAddr(l) \in Addrs
    THEN Put(ev, WellFormedFailAddr(l),
                [kind |-> IF WellFormedFailAddr(l) \in DOMAIN ev
                             /\ ev[WellFormedFailAddr(l)].kind # "fail"
                          THEN "retracted" ELSE "fail",
                 file |-> <<>>])
    ELSE ev

\* The file token of the last well-formed load line of each address that no
\* well-formed failure line of the address follows.
WantAfter(w, l) ==
    IF WellFormedLoad(l) /\ WellFormedLoadAddr(l) \in Addrs
    THEN Put(w, WellFormedLoadAddr(l), l.fields[6])
    ELSE IF WellFormedFail(l) /\ WellFormedFailAddr(l) \in Addrs
    THEN Drop(w, WellFormedFailAddr(l))
    ELSE w

NoLine == LineOf(FALSE, <<>>)

\* The resolver's variables before the loop of line 152 is entered.
ResolverIdle ==
    /\ todo = {}
    /\ visited = <<>>
    /\ stderr = <<>>
    /\ addr_start = 0
    /\ sh_size = 0
    /\ text_shndx = 0
    /\ addr_end = 0
    /\ results = EmptyMap
    /\ kept = EmptyMap
    /\ notes = {}
    /\ out = <<>>

\* main before the first line is read.
ScanStart ==
    /\ pc = "scan"
    /\ map = EmptyMap
    /\ line = NoLine
    /\ prev = EmptyMap
    /\ lastEv = EmptyMap
    /\ want = EmptyMap
    /\ ResolverIdle

\* The scanner alone: it has no unchecked arithmetic, so one build stands for both.
ScanInit == ScanStart /\ overflow_checks = FALSE

\* bufr.lines() yields the next line of the log (line 122).
ReadLine ==
    /\ pc = "scan"
    /\ pc' = "line"
    /\ \E l \in Lines : line' = l
    /\ UNCHANGED <<map, prev, lastEv, want>>
    /\ UNCHANGED resvars

\* The body of the for loop (lines 123-150) on the line just read.
ApplyLine ==
    /\ pc = "line"
    /\ pc' = "applied"
    /\ prev' = map
    /\ map' = Scan(map, line)
    /\ lastEv' = EventAfter(lastEv, line)
    /\ want' = WantAfter(want, line)
    /\ UNCHANGED line
    /\ UNCHANGED resvars

\* The loop goes back for the next line; the line is dropped.
Continue ==
    /\ pc = "applied"
    /\ pc' = "scan"
    /\ line' = NoLine
    /\ prev' = EmptyMap
    /\ UNCHANGED <<map, lastEv, want>>
    /\ UNCHANGED resvars

\* The log is exhausted: main goes on to the loop over the final mapping (line 152).
EndOfLog ==
    /\ pc = "scan"
    /\ pc' = "modules"
    /\ todo' = DOMAIN map
    /\ UNCHANGED scanvars
    /\ UNCHANGED <<overflow_checks, visited, stderr>>
    /\ UNCHANGED filevars

ScanNext == ReadLine \/ ApplyLine \/ Continue \/ EndOfLog

ScanSpec == ScanInit /\ [][ScanNext]_vars

(***************************************************************************)
(* u64 arithmetic: with overflow checks an overflow panics, without them   *)
(* the result wraps.                                                       *)
(***************************************************************************)
AddOverflows(a, b) == a + b >= Modulus

WrappingAdd(a, b) == (a + b) % Modulus

SubOverflows(a, b) == a < b

WrappingSub(a, b) == (a - b + Modulus) % Modulus

(***************************************************************************)
(* The symbol resolver: process_file (lines 59-109), post_process (29-57)  *)
(***************************************************************************)
\* What path.metadata(), File::open, Mmap::map and Elf::parse find at <base>.debug.
FileStates == {"missing", "not_a_file", "unopenable", "unparsable", "elf"}

\* Section header tables, by section name; index 0 is the null section.
SectionTables == { <<"", ".data">>, <<"", ".data", ".text">> }

\* sh_size of a .text section.
TextSizes == {1, MaxVal + 1}

Objects ==
    [state : FileStates, sections : SectionTables, text_size : TextSizes]

\* enumerate().find(|hdr| name == ".text"): the zero-based index of the first
\* section named .text, -1 when there is none.
FindText(sections) ==
    IF \E i \in 1 .. Len(sections) : sections[i] = ".text"
    THEN (CHOOSE i \in 1 .. Len(sections) :
              /\ sections[i] = ".text"
              /\ \A j \in 1 .. (i - 1) : sections[j] # ".text") - 1
    ELSE -1

\* Symbol names; NoName is a st_name the string table does not resolve.
NoName == "?"

\* Declared sizes: 0 (none) or a size.
DeclSizes == {0, 2}

STB_GLOBAL == "GLOBAL"

STB_LOCAL == "LOCAL"

\* The symbols a table may hold: every kind of symbol named A; an alias B of a
\* local function without a size; a global function whose name does not resolve.
Syms ==
    [st_shndx : {1, 2}, is_function : BOOLEAN, st_bind : {STB_GLOBAL, STB_LOCAL},
     name : {"A"}, st_value : 0 .. MaxVal, st_size : DeclSizes]
    \cup
    [st_shndx : {1, 2}, is_function : {TRUE}, st_bind : {STB_LOCAL},
     name : {"B"}, st_value : 0 .. MaxVal, st_size : {0}]
    \cup
    [st_shndx : {1, 2}, is_function : {TRUE}, st_bind : {STB_GLOBAL},
     name : {NoName}, st_value : 0 .. MaxVal, st_size : {0}]

SymRes(name, size, is_func) == [name |-> name, size |-> size, is_func |-> is_func]

\* The smallest key of a nonempty set of keys (BTreeMap iterates in key order).
MinKey(S) == CHOOSE k \in S : \A j \in S : k <= j

\* The final mappings the resolver is started on.
TopAddr == Modulus - 1

ModuleA == <<"a">>

ModuleB == <<"b">>

FinalMaps == { EmptyMap, Put(Put(EmptyMap, 0, ModuleA), TopAddr, ModuleB) }

ResolveInit ==
    /\ pc = "modules"
    /\ map \in FinalMaps
    /\ line = NoLine
    /\ prev = EmptyMap
    /\ lastEv = EmptyMap
    /\ want = EmptyMap
    /\ overflow_checks \in BOOLEAN
    /\ todo = DOMAIN map
    /\ visited = <<>>
    /\ stderr = <<>>
    /\ addr_start = 0
    /\ sh_size = 0
    /\ text_shndx = 0
    /\ addr_end = 0
    /\ results = EmptyMap
    /\ kept = EmptyMap
    /\ notes = {}
    /\ out = <<>>

Visit(addr, outcome) == [addr |-> addr, base |-> map[addr], outcome |-> outcome]

\* process_file returns Err before any symbol is read (lines 60-65, 77-80), and
\* main reports it and goes on with the next module (lines 154-156).
ProcessFileErr ==
    /\ pc = "modules"
    /\ todo # {}
    /\ \E obj \in Objects :
        /\ obj.state # "elf" \/ FindText(obj.sections) < 0
        /\ addr_start' = MinKey(todo)
        /\ todo' = todo \ {MinKey(todo)}
        /\ visited' = Append(visited, Visit(MinKey(todo), "err"))
        /\ stderr' = Append(stderr, map[MinKey(todo)])
        /\ sh_size' = 0
        /\ text_shndx' = 0
        /\ addr_end' = 0
        /\ results' = EmptyMap
        /\ kept' = EmptyMap
        /\ notes' = {}
        /\ out' = <<>>
    /\ UNCHANGED pc
    /\ UNCHANGED scanvars
    /\ UNCHANGED overflow_checks

\* process_file finds the .text section and computes addr_end (lines 60-83).
ProcessFileOpen ==
    /\ pc = "modules"
    /\ todo # {}
    /\ \E obj \in Objects :
        /\ obj.state = "elf"
        /\ FindText(obj.sections) >= 0
        /\ addr_start' = MinKey(todo)
        /\ todo' = todo \ {MinKey(todo)}
        /\ sh_size' = obj.text_size
        /\ text_shndx' = FindText(obj.sections)
        /\ IF overflow_checks /\ AddOverflows(MinKey(todo), obj.text_size)
           THEN /\ pc' = "panicked"
                /\ addr_end' = 0
           ELSE /\ pc' = "syms"
                /\ addr_end' = WrappingAdd(MinKey(todo), obj.text_size)
    /\ results' = EmptyMap
    /\ kept' = EmptyMap
    /\ notes' = {}
    /\ out' = <<>>
    /\ UNCHANGED <<visited, stderr>>
    /\ UNCHANGED scanvars
    /\ UNCHANGED overflow_checks

\* A faulty variant of Classify that does not test the section index.
ClassifyAnySection(sym, shndx) ==
    IF sym.is_function
    THEN IF sym.name # NoName THEN "func" ELSE "skip"
    ELSE IF sym.st_bind = STB_GLOBAL
         THEN IF sym.name # NoName THEN "object" ELSE "skip"
         ELSE "skip"

\* Lines 86-105: what the loop body does with a symbol: "skip" (continue, or a
\* name that does not resolve), "func" (insert with is_func: true) or "object"
\* (insert with is_func: false).
Classify(sym, shndx) ==
    IF sym.st_shndx # shndx
    THEN "skip"
    ELSE IF sym.is_function
         THEN IF sym.name # NoName THEN "func" ELSE "skip"
         ELSE IF sym.st_bind = STB_GLOBAL
              THEN IF sym.name # NoName THEN "object" ELSE "skip"
              ELSE "skip"

\* What the filter of the specification keeps: a symbol of the .text section
\* index that is a function or global, and whose name resolves.
Eligible(sym) ==
    /\ sym.st_shndx = text_shndx
    /\ (sym.is_function \/ sym.st_bind = STB_GLOBAL)
    /\ sym.name # NoName

\* The absolute address of a symbol, as a u64.
AbsAddr(sym) == (addr_start + sym.st_value) % Modulus

KeptEntry(sym) == [name |-> sym.name, size |-> sym.st_size, is_func |-> sym.is_function]

\* The last eligible symbol of each absolute address, as the entry the working
\* map is to hold for it.
KeptAfter(sym) == IF Eligible(sym) THEN Put(kept, AbsAddr(sym), KeptEntry(sym)) ELSE kept

\* "collision": an eligible symbol came after a different one of the same
\* address; "dropped": a global function of another section, or a local
\* non-function of .text, was met.
NotesAfter(sym) ==
    notes
    \cup (IF Eligible(sym) /\ AbsAddr(sym) \in DOMAIN kept /\ kept[AbsAddr(sym)] # KeptEntry(sym)
          THEN {"collision"} ELSE {})
    \cup (IF \/ sym.st_shndx # text_shndx /\ sym.is_function /\ sym.st_bind = STB_GLOBAL
                /\ sym.name # NoName
             \/ sym.st_shndx = text_shndx /\ ~sym.is_function /\ sym.st_bind = STB_LOCAL
          THEN {"dropped"} ELSE {})

\* One iteration of the loop over elf.syms (lines 85-106).
ProcessSym ==
    /\ pc = "syms"
    /\ \E sym \in Syms :
        IF Classify(sym, text_shndx) = "skip"
        THEN /\ UNCHANGED <<pc, results>>
             /\ kept' = KeptAfter(sym)
             /\ notes' = NotesAfter(sym)
        ELSE IF overflow_checks /\ AddOverflows(addr_start, sym.st_value)
        THEN /\ pc' = "panicked"
             /\ UNCHANGED <<results, kept, notes>>
        ELSE /\ UNCHANGED pc
             /\ results' = Insert(results, WrappingAdd(addr_start, sym.st_value),
                                  SymRes(sym.name, sym.st_size,
                                         Classify(sym, text_shndx) = "func"))
             /\ kept' = KeptAfter(sym)
             /\ notes' = NotesAfter(sym)
    /\ UNCHANGED <<todo, visited, stderr, addr_start, sh_size, text_shndx, addr_end, out>>
    /\ UNCHANGED scanvars
    /\ UNCHANGED overflow_checks

\* The symbol table is exhausted: post_process is called (line 107).
CallPostProcess ==
    /\ pc = "syms"
    /\ pc' = "post"
    /\ UNCHANGED scanvars
    /\ UNCHANGED resvars

\* The keys post_process's iterator has not yielded yet.
Remaining == { k \in DOMAIN results : out = <<>> \/ k > out[Len(out)].addr }

\* A faulty variant of Size that never looks at the next entry (no peek).
SizeToEnd(addr, rest) ==
    IF results[addr].size = 0 THEN WrappingSub(addr_end, addr) ELSE results[addr].size

\* Lines 32-43: the size printed for the entry at addr; rest holds the keys after it.
Size(addr, rest) ==
    IF results[addr].size = 0
    THEN IF rest # {}
         THEN WrappingSub(MinKey(rest), addr)
         ELSE WrappingSub(addr_end, addr)
    ELSE results[addr].size

\* Whether the size computation of lines 32-43 overflows.
SizeOverflows(addr, rest) ==
    /\ results[addr].size = 0
    /\ IF rest # {} THEN SubOverflows(MinKey(rest), addr) ELSE SubOverflows(addr_end, addr)

OutLine(addr, rest) ==
    [addr |-> addr, is_func |-> results[addr].is_func, size |-> Size(addr, rest),
     name |-> results[addr].name]

\* One iteration of the loop of post_process (lines 31-56).
PostProcessStep ==
    /\ pc = "post"
    /\ Remaining # {}
    /\ LET addr == MinKey(Remaining)
           rest == Remaining \ {addr}
       IN  IF overflow_checks /\ SizeOverflows(addr, rest)
           THEN /\ pc' = "panicked"
                /\ UNCHANGED out
           ELSE /\ UNCHANGED pc
                /\ out' = Append(out, OutLine(addr, rest))
    /\ UNCHANGED <<todo, visited, stderr, addr_start, sh_size, text_shndx, addr_end,
                   results, kept, notes>>
    /\ UNCHANGED scanvars
    /\ UNCHANGED overflow_checks

\* post_process and process_file return Ok(()) (lines 57, 108).
ProcessFileOk ==
    /\ pc = "post"
    /\ Remaining = {}
    /\ pc' = "modules"
    /\ visited' = Append(visited, Visit(addr_start, "ok"))
    /\ UNCHANGED <<todo, stderr>>
    /\ UNCHANGED filevars
    /\ UNCHANGED scanvars
    /\ UNCHANGED overflow_checks

\* The loop of line 152 is exhausted: main returns.
MainReturn ==
    /\ pc = "modules"
    /\ todo = {}
    /\ pc' = "done"
    /\ UNCHANGED scanvars
    /\ UNCHANGED resvars

ResolveNext ==
    \/ ProcessFileErr
    \/ ProcessFileOpen
    \/ ProcessSym
    \/ CallPostProcess
    \/ PostProcessStep
    \/ ProcessFileOk
    \/ MainReturn

ResolveSpec == ResolveInit /\ [][ResolveNext]_vars

\* The whole program: the scanner, then the resolver on the mapping it produced.
Init == ScanStart /\ overflow_checks \in BOOLEAN

Next == ScanNext \/ ResolveNext

Spec == Init /\ [][Next]_vars

(***************************************************************************)
(* The claims                                                              *)
(***************************************************************************)
LastVisited == visited[Len(visited)]

\* The module being processed has returned Ok(()) and out holds all its lines.
ModuleComplete ==
    /\ pc \in {"modules", "done"}
    /\ visited # <<>>
    /\ LastVisited.outcome = "ok"

OutAddrs == { out[i].addr : i \in 1 .. Len(out) }

\* C1: when the log is exhausted, every address whose last well-formed load line
\* is followed by no failure line of the address is a key of the mapping, and its
\* value is the line's token 5 with one trailing ".efi" removed and nothing else.
C1_LoadRecorded ==
    pc = "modules" =>
        \A a \in DOMAIN want :
            /\ a \in DOMAIN map
            /\ map[a] = StripSuffixOnce(want[a], EfiSuffix)

\* C2: events are applied in line order and the last event of an address wins: in
\* the final mapping an address whose load line is followed by a failure line (and
\* no load line after it) is absent, and an address loaded again after a failure
\* is present with the later load's module name, whatever lines that are not
\* events of the address came between or after.
C2_LastEventWins ==
    pc = "modules" =>
        \A a \in DOMAIN lastEv :
            /\ lastEv[a].kind = "retracted" => a \notin DOMAIN map
            /\ lastEv[a].kind = "reload" =>
                    a \in DOMAIN map /\ map[a] = ModuleName(lastEv[a].file)

\* A load line whose token 3 is "0x" followed by a number from_str_radix accepts.
C8_LoadLine(l) ==
    /\ Len(l.fields) >= 6
    /\ l.fields[1] = Loading
    /\ l.fields[3] = At
    /\ StartsWith(l.fields[4], HexPrefix)
    /\ FromStrRadix16(StripPrefixOnce(l.fields[4], HexPrefix)) >= 0
    /\ EndsWith(l.fields[6], EfiSuffix)

\* A failure line whose token 3 is a number from_str_radix accepts.
C8_FailLine(l) ==
    /\ l.exact
    /\ Len(l.fields) >= 4
    /\ l.fields[1] = ErrorColon /\ l.fields[2] = Image /\ l.fields[3] = At
    /\ FromStrRadix16(l.fields[4]) >= 0

\* C8: a line changes the mapping only if it is a load line whose token 3 is "0x"
\* followed by a valid hexadecimal number (one "0x" stripped) or a failure line
\* whose token 3 is a bare hexadecimal number; any other line leaves the mapping
\* as it was.
C8_OnlyEventsChange ==
    (pc = "applied" /\ map # prev) => (C8_LoadLine(line) \/ C8_FailLine(line))

\* C10: a failure line whose address has no entry in the mapping leaves the
\* mapping as it was.
C10_FailureOfAbsentIsNoOp ==
    (pc = "applied" /\ FailShape(line) /\ FailAddr(line) \notin DOMAIN prev) => map = prev

\* A failure line with a well-formed address that has no entry was applied to a
\* mapping that holds other entries.
C10_Witness ==
    /\ pc = "applied"
    /\ WellFormedFail(line)
    /\ FailAddr(line) \in Addrs
    /\ FailAddr(line) \notin DOMAIN prev
    /\ prev # EmptyMap
    /\ map = prev

\* C3: each emitted entry's size is its declared size when that is nonzero,
\* otherwise the address of the next entry in ascending order minus its own, or
\* load_address + .text size minus its own when it is the last (u64 arithmetic).
C3_SizeInference ==
    \A i \in 1 .. Len(out) :
        LET a == out[i].addr
            later == { k \in DOMAIN results : k > a }
        IN  /\ a \in DOMAIN results
            /\ out[i].size =
                IF results[a].size # 0 THEN results[a].size
                ELSE IF later # {} THEN MinKey(later) - a
                ELSE (addr_start + sh_size - a + Modulus) % Modulus

\* The example of the specification, scaled: text [0, MaxVal + 1), A at 0 with a
\* declared size, B and C after it without one; A keeps its size, B stretches to
\* C, C stretches to the end of the section.
C3_Witness ==
    /\ ModuleComplete
    /\ addr_start = 0
    /\ sh_size = MaxVal + 1
    /\ Len(out) = 3
    /\ out[1].addr = 0 /\ results[0].size = 2 /\ out[1].size = 2
    /\ results[out[2].addr].size = 0 /\ out[2].size = out[3].addr - out[2].addr
    /\ results[out[3].addr].size = 0 /\ out[3].size = sh_size - out[3].addr
    /\ out[3].size > 0

\* C4: every emitted address A satisfies load_address <= A < load_address +
\* text_section_size.
C4_AddressInRange ==
    \A i \in 1 .. Len(out) :
        /\ addr_start <= out[i].addr
        /\ out[i].addr < addr_start + sh_size

\* C5: a module that fails emits no line and is reported with its name, every
\* module of the mapping is processed, in ascending address order, and nothing
\* inside the processing of a module aborts the run.
C5_FailureIsolation ==
    /\ pc # "panicked"
    /\ \A i \in 1 .. Len(visited) :
        visited[i].outcome = "err" => \E j \in 1 .. Len(stderr) : stderr[j] = visited[i].base
    /\ (visited # <<>> /\ LastVisited.outcome = "err" /\ LastVisited.addr = addr_start)
        => out = <<>>
    /\ \A i, j \in 1 .. Len(visited) : i < j => visited[i].addr < visited[j].addr
    /\ pc = "done" => { visited[i].addr : i \in 1 .. Len(visited) } = DOMAIN map

\* C6: a module's lines are in strictly ascending address order, each carries the
\* name, declared size and function flag of the last eligible symbol of its
\* address, and a complete module has exactly one line per such address.
C6_SortedLastWins ==
    /\ \A i, j \in 1 .. Len(out) : i < j => out[i].addr < out[j].addr
    /\ \A i \in 1 .. Len(out) :
        LET a == out[i].addr
        IN  /\ a \in DOMAIN kept
            /\ out[i].name = kept[a].name
            /\ out[i].is_func = kept[a].is_func
            /\ kept[a].size # 0 => out[i].size = kept[a].size
    /\ ModuleComplete => OutAddrs = DOMAIN kept

\* A complete module with several lines in which a symbol replaced a different
\* one of the same address.
C6_Witness ==
    /\ ModuleComplete
    /\ "collision" \in notes
    /\ Len(out) >= 2
    /\ OutAddrs = DOMAIN kept

\* C7: every emitted size is greater than zero.
C7_SizeNonZero == \A i \in 1 .. Len(out) : out[i].size > 0

\* C9: every entry of the working map and every emitted line stems from a symbol
\* of the .text section index that is a function or global; dropping a symbol
\* does not fail the module.
C9_OnlyTextCode ==
    /\ \A a \in DOMAIN results : a \in DOMAIN kept /\ results[a] = kept[a]
    /\ OutAddrs \subseteq DOMAIN results
    /\ "dropped" \in notes =>
        \A i \in 1 .. Len(visited) :
            visited[i].addr = addr_start => visited[i].outcome = "ok"

\* A complete module that met a global function of another section or a local
\* non-function of .text, and emitted lines for the others.
C9_Witness ==
    /\ ModuleComplete
    /\ "dropped" \in notes
    /\ out # <<>>
    /\ OutAddrs = DOMAIN kept

====
